---- MODULE Spec2Model ----
(***************************************************************************)
(* get_occupancy_rate (src/main.py, lines 31-248): the multi-strategy      *)
(* occupancy extraction over the most recent 10-Q / 10-K filings.          *)
(*                                                                         *)
(* Numbers are integers in thousandths of a percent (94.2 is 94200).       *)
(* A text is the sequence of its whitespace-separated tokens, which is     *)
(* what soup.get_text followed by re.sub(r'\s+', ' ', ...) leaves; a       *)
(* character offset is computed from the tokens' lengths.  Every match in  *)
(* the source is case-insensitive (lines 85, 109, 120, 173, 202, 221), so  *)
(* words are compared through Lower.                                       *)
(*                                                                         *)
(* pc is the position in the function; cik, filings, filing_urls, html     *)
(* are its locals (idx is the position of the loop of line 66 in           *)
(* filing_urls); result is what the call returns.  requested, fetched,     *)
(* ran and outcomes record the requests made, the filings requested, the   *)
(* stages run on the current document and how each fetch ended.            *)
(* supplied and reduced are the input and output of the consensus          *)
(* reducer (lines 149-161) when it is run on its own, under SpecReducer.   *)
(***************************************************************************)
EXTENDS Integers, Sequences, FiniteSets, TLC

VARIABLES pc, cik, filings, filing_urls, idx, html, result, requested, fetched, ran,
          outcomes, supplied, reduced

vars == <<pc, cik, filings, filing_urls, idx, html, result, requested, fetched, ran,
          outcomes, supplied, reduced>>

\* ------------------------------------------------------------------ bounds
\* Longest catalog (filings.recent.form list) the catalog service returns.
MaxCatalog == 4

\* Longest candidate list handed to the reducer when it is run on its own.
MaxCandidates == 3

\* ------------------------------------------------------------- constants
\* One unit of the number scale: 1.000 percent.
Unit == 10 * 10 * 10
\* 50 <= perc <= 100
RateMin == 50 * Unit
RateMax == 100 * Unit
\* 90 <= perc_num <= 100 of the 'percent leased' shortcut.
ShortcutMin == 90 * Unit
\* abs(v - median_val) <= 5
Tolerance == 5 * Unit
\* d < 300
ProximityLimit == 300
\* best_dist = 999999
InitialBestDist == 999999
\* m.start() - 1000, m.end() + 1000 and the {0,1000} span of the last pattern
WindowRadius == 1000
\* len(s) > 50
MinSentenceLen == 50
\* sentences[:3]
SentencesTried == 3
\* len(filing_urls) >= 3
MaxFilings == 3

\* ---------------------------------------------------------------- tokens
\* k: "w" a word, "num" a number, "pct" a number directly followed by '%',
\* "dot" a lone '.', "pad" a run of ip characters of prose with no digit,
\* no punctuation and none of the source's keywords.
\* A number is ip '.' fd with fn fraction digits (fn = 0: no '.').
W(s) == [k |-> "w", w |-> s, ip |-> 0, fd |-> 0, fn |-> 0]
Num(i, f, n) == [k |-> "num", w |-> "", ip |-> i, fd |-> f, fn |-> n]
Pct(i, f, n) == [k |-> "pct", w |-> "", ip |-> i, fd |-> f, fn |-> n]
Dot == [k |-> "dot", w |-> ".", ip |-> 0, fd |-> 0, fn |-> 0]
Pad(n) == [k |-> "pad", w |-> "", ip |-> n, fd |-> 0, fn |-> 0]

IsNumber(t) == t.k \in {"num", "pct"}

Pow10(n) == CASE n = 0 -> 1 [] n = 1 -> 10 [] n = 2 -> 100 [] n = 3 -> 1000 [] OTHER -> 10000

\* float(m.group(1)) of a number token.
Value(t) == t.ip * Unit + t.fd * Pow10(3 - t.fn)

Digits(i) == IF i < 10 THEN 1 ELSE IF i < 100 THEN 2 ELSE IF i < 1000 THEN 3 ELSE 4

\* Number of characters of a token.
Chars(t) ==
    CASE t.k = "w" -> Len(t.w)
      [] t.k = "dot" -> 1
      [] t.k = "pad" -> t.ip
      [] t.k = "num" -> Digits(t.ip) + (IF t.fn > 0 THEN 1 + t.fn ELSE 0)
      [] OTHER -> Digits(t.ip) + (IF t.fn > 0 THEN 1 + t.fn ELSE 0) + 1

\* str.lower() / re.IGNORECASE on the words of the vocabulary.
Lower(s) ==
    CASE s = "Same store" -> "same store"
      [] s = "Portfolio" -> "portfolio"
      [] s = "Occupancy" -> "occupancy"
      [] s = "The" -> "the"
      [] s = "Our" -> "our"
      [] s = "December" -> "december"
      [] OTHER -> s

\* The characters between a token and the one before it: words are joined
\* by one space, a '.' follows its word directly.
Sep(t) == IF t.k = "dot" THEN 0 ELSE 1

\* len(text) of the first n tokens of T.
RECURSIVE PrefixLen(_, _)
PrefixLen(T, n) ==
    IF n = 0 THEN 0
    ELSE PrefixLen(T, n - 1) + (IF n = 1 THEN 0 ELSE Sep(T[n])) + Chars(T[n])

TextLen(T) == PrefixLen(T, Len(T))

\* Character offset at which token i starts, and the one just after it.
Off(T, i) == PrefixLen(T, i) - Chars(T[i])
EndOff(T, i) == PrefixLen(T, i)

RECURSIVE Concat(_)
Concat(ss) == IF ss = <<>> THEN <<>> ELSE Head(ss) \o Concat(Tail(ss))

\* ------------------------------------------------------------- keywords
\* 'kw in w' for a word w of the vocabulary that is not kw itself.
SubstringPairs ==
    { <<"percentage", "percent">>, <<"current", "rent">>, <<"targets", "target">> }

Contains(w, kw) == w = kw \/ <<w, kw>> \in SubstringPairs

\* The two-word keywords, as the adjacent words they are found across.
Phrase(kw) ==
    CASE kw = "percent leased" -> { <<"percent", "leased">> }
      [] kw = "properties leased" -> { <<"properties", "leased">> }
      [] kw = "as of" -> { <<"was", "of">> }
      [] OTHER -> {}

\* kw in text.lower()
HasKw(T, kw) ==
    \/ \E i \in 1..Len(T) : T[i].k = "w" /\ Contains(Lower(T[i].w), kw)
    \/ \E i \in 1..(Len(T) - 1) :
          /\ T[i].k = "w" /\ T[i + 1].k = "w"
          /\ <<Lower(T[i].w), Lower(T[i + 1].w)>> \in Phrase(kw)

\* any(kw in text.lower() for kw in kws)
HasAny(T, kws) == \E kw \in kws : HasKw(T, kw)

InRange(v) == RateMin <= v /\ v <= RateMax

\* round(x, nd) for nd in {1, 2}; the numbers drawn are never a tie.
Round(v, nd) ==
    LET q == Pow10(3 - nd) IN ((v + (q \div 2)) \div q) * q

\* --------------------------------------------------------------- markup
\* A document is a sequence of blocks in document order.
\*   "p"  : prose, cells = << tokens >>
\*   "tr" : a table row, cells = the token sequences of its td/th cells
\*   "ix" : the grandparent element of an ix:nonfraction tag; cells =
\*          << text of the grandparent outside the parent, text of the
\*          parent >>, ctx = the tag's contextref, num = the tag's text.
P(T) == [k |-> "p", cells |-> <<T>>, ctx |-> "", num |-> Dot]
Tr(cs) == [k |-> "tr", cells |-> cs, ctx |-> "", num |-> Dot]
Ix(c, gp, par, n) == [k |-> "ix", cells |-> <<gp, par>>, ctx |-> c, num |-> n]

\* soup.get_text(...) with whitespace collapsed, as tokens.
RECURSIVE get_text(_)
get_text(doc) ==
    IF doc = <<>> THEN <<>> ELSE Concat(Head(doc).cells) \o get_text(Tail(doc))

\* 'current' in context.lower(), 'asof' in context.lower()
CtxMarkers ==
    { <<"CurrentYearInstant", "current">>, <<"AsOf2024Q4", "asof">> }

XbrlKeywords == {"occupancy", "leased", "percent leased", "portfolio", "properties leased"}

NotFound == [found |-> FALSE, value |-> 0, context |-> <<>>]

\* XbrlScan without the test of the context.
RECURSIVE XbrlScanAnyContext(_)
XbrlScanAnyContext(doc) ==
    IF doc = <<>> THEN NotFound
    ELSE LET tag == Head(doc)
             parent_text == Concat(tag.cells) \o tag.cells[Len(tag.cells)]
         IN IF /\ tag.k = "ix"
               /\ HasAny(parent_text, XbrlKeywords)
               /\ tag.num.k = "num"
               /\ InRange(Value(tag.num))
            THEN [found |-> TRUE, value |-> Value(tag.num), context |-> parent_text]
            ELSE XbrlScanAnyContext(Tail(doc))

\* XbrlScan that accepts only the 'asof' contexts.
RECURSIVE XbrlScanAsOfOnly(_)
XbrlScanAsOfOnly(doc) ==
    IF doc = <<>> THEN NotFound
    ELSE LET tag == Head(doc)
             parent_text == Concat(tag.cells) \o tag.cells[Len(tag.cells)]
         IN IF /\ tag.k = "ix"
               /\ <<tag.ctx, "asof">> \in CtxMarkers
               /\ HasAny(parent_text, XbrlKeywords)
               /\ tag.num.k = "num"
               /\ InRange(Value(tag.num))
            THEN [found |-> TRUE, value |-> Value(tag.num), context |-> parent_text]
            ELSE XbrlScanAsOfOnly(Tail(doc))

\* Lines 77-96: the first ix:nonfraction tag, in document order, whose
\* context is current / as-of, whose grandparent + parent text holds a
\* keyword, whose text is a pure decimal and whose value is in range.
RECURSIVE XbrlScan(_)
XbrlScan(doc) ==
    IF doc = <<>> THEN NotFound
    ELSE LET tag == Head(doc)
             parent_text == Concat(tag.cells) \o tag.cells[Len(tag.cells)]
         IN IF /\ tag.k = "ix"
               /\ (<<tag.ctx, "current">> \in CtxMarkers \/ <<tag.ctx, "asof">> \in CtxMarkers)
               /\ HasAny(parent_text, XbrlKeywords)
               /\ tag.num.k = "num"
               /\ InRange(Value(tag.num))
            THEN [found |-> TRUE, value |-> Value(tag.num), context |-> parent_text]
            ELSE XbrlScan(Tail(doc))

TableKeywords == {"occupancy", "percent", "leased", "occupied", "same-store"}

\* re.search(r"(\d+\.?\d*)\s*%", c): the first number of the cell that a
\* '%' follows; << >> when there is none.
RECURSIVE FirstPct(_)
FirstPct(c) ==
    IF c = <<>> THEN <<>>
    ELSE IF Head(c).k = "pct" THEN <<Value(Head(c))>> ELSE FirstPct(Tail(c))

RECURSIVE CellValues(_)
CellValues(cells) ==
    IF cells = <<>> THEN <<>>
    ELSE LET m == FirstPct(Head(cells))
         IN (IF m # <<>> /\ InRange(m[1]) THEN m ELSE <<>>) \o CellValues(Tail(cells))

\* Lines 102-117.
RECURSIVE extract_tables(_)
extract_tables(doc) ==
    IF doc = <<>> THEN <<>>
    ELSE LET row == Head(doc)
         IN (IF row.k = "tr" /\ HasAny(Concat(row.cells), TableKeywords)
             THEN CellValues(row.cells) ELSE <<>>) \o extract_tables(Tail(doc))

\* ------------------------------------------------------------ proximity
\* Python's None where a number is expected.
None == -1

ProximityKeywords == {"occupancy", "leased", "percent"}

\* [m.start() for m in re.finditer(r"occupancy|leased|percent", text, re.I)]
RECURSIVE LabelsFrom(_, _)
LabelsFrom(T, i) ==
    IF i > Len(T) THEN <<>>
    ELSE (IF T[i].k = "w" /\ \E kw \in ProximityKeywords : Contains(Lower(T[i].w), kw)
          THEN <<Off(T, i)>> ELSE <<>>) \o LabelsFrom(T, i + 1)

\* [(m.start(), float(m.group(1))) for m in re.finditer(r"(\d+\.?\d*)%", text)]
RECURSIVE ValuesFrom(_, _)
ValuesFrom(T, i) ==
    IF i > Len(T) THEN <<>>
    ELSE (IF T[i].k = "pct" THEN << <<Off(T, i), Value(T[i])>> >> ELSE <<>>)
         \o ValuesFrom(T, i + 1)

Abs(x) == IF x < 0 THEN -x ELSE x

\* InnerLoop without the test 50 <= val <= 100.
RECURSIVE InnerLoopAnyValue(_, _, _)
InnerLoopAnyValue(L, values, acc) ==
    IF values = <<>> THEN acc
    ELSE LET pos == Head(values)[1]
             val == Head(values)[2]
             d == Abs(L - pos)
         IN InnerLoopAnyValue(L, Tail(values),
                IF d < acc.best_dist /\ d < ProximityLimit
                THEN [best |-> val, best_dist |-> d] ELSE acc)

\* InnerLoop that also replaces the best pair by one at the same distance.
RECURSIVE InnerLoopLastOfEqual(_, _, _)
InnerLoopLastOfEqual(L, values, acc) ==
    IF values = <<>> THEN acc
    ELSE LET pos == Head(values)[1]
             val == Head(values)[2]
             d == Abs(L - pos)
         IN InnerLoopLastOfEqual(L, Tail(values),
                IF InRange(val) /\ d <= acc.best_dist /\ d < ProximityLimit
                THEN [best |-> val, best_dist |-> d] ELSE acc)

\* for pos, val in values: ... (lines 126-131)
RECURSIVE InnerLoop(_, _, _)
InnerLoop(L, values, acc) ==
    IF values = <<>> THEN acc
    ELSE LET pos == Head(values)[1]
             val == Head(values)[2]
             d == Abs(L - pos)
         IN InnerLoop(L, Tail(values),
                IF InRange(val) /\ d < acc.best_dist /\ d < ProximityLimit
                THEN [best |-> val, best_dist |-> d] ELSE acc)

\* for L in labels: ... (line 125)
RECURSIVE OuterLoop(_, _, _)
OuterLoop(labels, values, acc) ==
    IF labels = <<>> THEN acc
    ELSE OuterLoop(Tail(labels), values, InnerLoop(Head(labels), values, acc))

\* Lines 119-132.
closeness_search(T) ==
    OuterLoop(LabelsFrom(T, 1), ValuesFrom(T, 1),
              [best |-> None, best_dist |-> InitialBestDist]).best

\* ------------------------------------------------------------ consensus
RECURSIVE Insert(_, _)
Insert(x, s) ==
    IF s = <<>> THEN <<x>>
    ELSE IF x <= Head(s) THEN <<x>> \o s ELSE <<Head(s)>> \o Insert(x, Tail(s))

\* sorted(s)
RECURSIVE sorted(_)
sorted(s) == IF s = <<>> THEN <<>> ELSE Insert(Head(s), sorted(Tail(s)))

\* Middle that takes the mean of the list.
RECURSIVE Sum(_)
Sum(s) == IF s = <<>> THEN 0 ELSE Head(s) + Sum(Tail(s))

MiddleAsMean(s) == Sum(s) \div Len(s)

\* Middle that takes the element at len(s)//2 of the list as supplied.
MiddleUnsorted(s) == s[(Len(s) \div 2) + 1]

\* sorted(s)[len(s)//2]
Middle(s) == sorted(s)[(Len(s) \div 2) + 1]

\* Lines 138-147: the table values, then the proximity value if truthy.
candidates_new_logic(doc) ==
    LET closeness_value == closeness_search(get_text(doc))
    IN extract_tables(doc)
       \o (IF closeness_value # None /\ closeness_value # 0
           THEN <<closeness_value>> ELSE <<>>)

\* [v for v in candidates_new_logic if abs(v - median_val) <= 5]
RECURSIVE Cleaned(_, _)
Cleaned(c, median_val) ==
    IF c = <<>> THEN <<>>
    ELSE (IF Abs(Head(c) - median_val) <= Tolerance THEN <<Head(c)>> ELSE <<>>)
         \o Cleaned(Tail(c), median_val)

\* Consensus that wants two candidates to agree.
ConsensusOfTwo(c) ==
    IF Len(c) < 2 THEN NotFound
    ELSE LET cleaned == Cleaned(c, Middle(c))
         IN IF Len(cleaned) < 2 THEN NotFound
            ELSE [found |-> TRUE, value |-> Middle(cleaned),
                  context |-> <<W("High-confidence consensus value")>>]

\* Lines 149-161.
Consensus(c) ==
    IF c = <<>> THEN NotFound
    ELSE LET cleaned == Cleaned(c, Middle(c))
         IN IF cleaned = <<>> THEN NotFound
            ELSE [found |-> TRUE, value |-> Middle(cleaned),
                  context |-> <<W("High-confidence consensus value")>>]

\* ------------------------------------------------------- text patterns
IsWord(T, i, ws) == i <= Len(T) /\ T[i].k = "w" /\ Lower(T[i].w) \in ws
IsPct(T, i) == i <= Len(T) /\ T[i].k = "pct"

\* Lines 169-170: a number split by markup into digits, '.', digits is
\* joined again ("94 . 2%" becomes "94.2%", "31 . 5" becomes "31.5").
\* Only whole numbers are joined; the texts drawn hold no fractional
\* number next to a lone '.'.
RECURSIVE Repair(_)
Repair(T) ==
    IF T = <<>> THEN <<>>
    ELSE IF /\ Len(T) >= 3
            /\ T[1].k = "num" /\ T[1].fn = 0
            /\ T[2].k = "dot"
            /\ IsNumber(T[3]) /\ T[3].fn = 0
         THEN <<[k |-> T[3].k, w |-> "", ip |-> T[1].ip, fd |-> T[3].ip,
                 fn |-> Digits(T[3].ip)]>> \o Repair(SubSeq(T, 4, Len(T)))
         ELSE <<Head(T)>> \o Repair(Tail(T))

NoMatch == [ok |-> FALSE, e |-> 0, v |-> 0]
Hit(e, v) == [ok |-> TRUE, e |-> e, v |-> v]

\* The index after an optional word of ws at i.
Opt(T, i, ws) == IF IsWord(T, i, ws) THEN i + 1 ELSE i

\* word\s*(?:verbs)?\s*[:\-]?\s*(\d+\.?\d*)%  starting at token i + 1
VerbThenPct(T, i, verbs) ==
    LET j == Opt(T, Opt(T, i + 1, verbs), {":", "-"})
    IN IF IsPct(T, j) THEN Hit(j, Value(T[j])) ELSE NoMatch

\* (de|in)creased\s+(?:approximately\s+)?\d+\.?\d*%\s+to\s+(\d+\.?\d*)%
ChangedTo(T, i) ==
    LET j == Opt(T, i + 1, {"approximately"})
    IN IF IsPct(T, j) /\ IsWord(T, j + 1, {"to"}) /\ IsPct(T, j + 2)
       THEN Hit(j + 2, Value(T[j + 2])) ELSE NoMatch

\* The first index >= i at which a word holding kw stands; 0 if none.
RECURSIVE NextWord(_, _, _)
NextWord(T, i, kw) ==
    IF i > Len(T) THEN 0
    ELSE IF T[i].k = "w" /\ Contains(Lower(T[i].w), kw) THEN i
    ELSE NextWord(T, i + 1, kw)

\* The first index >= i of a number followed by '%'; 0 if none.
RECURSIVE NextPct(_, _)
NextPct(T, i) ==
    IF i > Len(T) THEN 0 ELSE IF T[i].k = "pct" THEN i ELSE NextPct(T, i + 1)

\* properties.*?leased.*?(\d+\.?\d*)%
PropertiesLeased(T, i) ==
    LET k == NextWord(T, i + 1, "leased")
        j == IF k = 0 THEN 0 ELSE NextPct(T, k + 1)
    IN IF j = 0 THEN NoMatch ELSE Hit(j, Value(T[j]))

\* same\s*store[^.?!]{0,1000}(\d+\.?\d*)%  The span is greedy: it reaches
\* the last 'number%' it can without crossing a '.', and takes every
\* digit of that number it may, leaving one digit to the group.
SameStoreEnds(T, i) ==
    { j \in (i + 1)..Len(T) :
        /\ T[j].k = "pct"
        /\ Off(T, j) - EndOff(T, i) <= WindowRadius
        /\ \A m \in (i + 1)..(j - 1) : T[m].k # "dot" /\ ~(IsNumber(T[m]) /\ T[m].fn > 0) }

Max(S) == CHOOSE x \in S : \A y \in S : y <= x
Min(S) == CHOOSE x \in S : \A y \in S : x <= y

SameStore(T, i) ==
    LET ends == SameStoreEnds(T, i)
    IN IF ends = {} THEN NoMatch
       ELSE LET j == Max(ends)
                room == WindowRadius - (Off(T, j) - EndOff(T, i))
                eaten == Min({Digits(T[j].ip) - 1, room})
                kept == T[j].ip % Pow10(Digits(T[j].ip) - eaten)
            IN Hit(j, kept * Unit + T[j].fd * Pow10(3 - T[j].fn))

\* Lines 186-198: pattern n tried at token i.
MatchAt(n, T, i) ==
    CASE n = 1 -> IF IsWord(T, i, {"decreased"}) THEN ChangedTo(T, i) ELSE NoMatch
      [] n = 2 -> IF IsWord(T, i, {"increased"}) THEN ChangedTo(T, i) ELSE NoMatch
      [] n = 3 -> IF IsWord(T, i, {"percent"}) /\ IsWord(T, i + 1, {"leased"})
                  THEN VerbThenPct(T, i + 1, {"was", "is", "remained", "stood"}) ELSE NoMatch
      [] n = 4 -> IF IsWord(T, i, {"percentage"}) /\ IsWord(T, i + 1, {"leased"})
                  THEN VerbThenPct(T, i + 1, {"was", "is", "remained", "stood"}) ELSE NoMatch
      [] n = 5 -> IF IsWord(T, i, {"properties"}) THEN PropertiesLeased(T, i) ELSE NoMatch
      [] n = 6 -> IF IsWord(T, i, {"leased"})
                  THEN VerbThenPct(T, i, {"was", "is", "stood"}) ELSE NoMatch
      [] n = 7 -> IF IsWord(T, i, {"occupancy"})
                  THEN VerbThenPct(T, i, {"was", "is", "stood", "remained"}) ELSE NoMatch
      [] n = 8 -> IF /\ IsWord(T, i, {"portfolio"}) /\ IsWord(T, i + 1, {"was", "is"})
                     /\ IsPct(T, i + 2) /\ IsWord(T, i + 3, {"leased", "occupied"})
                  THEN Hit(i + 3, Value(T[i + 2])) ELSE NoMatch
      [] n = 9 -> IF IsPct(T, i) /\ IsWord(T, i + 1, {"leased", "occupied"})
                  THEN Hit(i + 1, Value(T[i])) ELSE NoMatch
      [] n = 10 -> IF /\ IsPct(T, i) /\ IsWord(T, i + 1, {"of"}) /\ IsWord(T, i + 2, {"our"})
                      /\ IsWord(T, i + 3, {"properties", "portfolio"})
                   THEN Hit(i + 3, Value(T[i])) ELSE NoMatch
      [] OTHER -> IF IsWord(T, i, {"same store"}) THEN SameStore(T, i) ELSE NoMatch

NumPatterns == 11

\* re.finditer(pattern, text, re.IGNORECASE) from token i on: the matches
\* left to right, each search resuming where the last match ended.
RECURSIVE finditer(_, _, _)
finditer(n, T, i) ==
    IF i > Len(T) THEN <<>>
    ELSE LET m == MatchAt(n, T, i)
         IN IF m.ok THEN <<[s |-> i, e |-> m.e, v |-> m.v]>> \o finditer(n, T, m.e + 1)
            ELSE finditer(n, T, i + 1)

\* ----------------------------------------------------------- sentences
\* The character offsets of the '.' characters of the text: the lone
\* dots and the decimal points of the fractional numbers.
DotOffsets(T) ==
    { Off(T, i) : i \in { j \in 1..Len(T) : T[j].k = "dot" } }
    \cup { Off(T, i) + Digits(T[i].ip) :
             i \in { j \in 1..Len(T) : IsNumber(T[j]) /\ T[j].fn > 0 } }

RECURSIVE Ascending(_)
Ascending(S) == IF S = {} THEN <<>> ELSE <<Min(S)>> \o Ascending(S \ {Min(S)})

\* The text between two '.', as character ranges [a, b) with the tokens
\* they hold: a fractional number is cut at its decimal point.
RECURSIVE Pieces(_, _)
Pieces(T, i) ==
    IF i > Len(T) THEN <<>>
    ELSE (IF T[i].k = "dot" THEN <<>>
          ELSE IF IsNumber(T[i]) /\ T[i].fn > 0
          THEN << [a |-> Off(T, i), b |-> Off(T, i) + Digits(T[i].ip),
                   tok |-> Num(T[i].ip, 0, 0)],
                  [a |-> Off(T, i) + Digits(T[i].ip) + 1, b |-> EndOff(T, i),
                   tok |-> [k |-> T[i].k, w |-> "", ip |-> T[i].fd, fd |-> 0, fn |-> 0]] >>
          ELSE << [a |-> Off(T, i), b |-> EndOff(T, i), tok |-> T[i]] >>)
         \o Pieces(T, i + 1)

\* text[a:b] as tokens; a token the slice cuts through is left as the
\* run of characters that remains of it.
RECURSIVE Slice(_, _, _)
Slice(ps, a, b) ==
    IF ps = <<>> THEN <<>>
    ELSE LET p == Head(ps)
             lo == IF p.a > a THEN p.a ELSE a
             hi == IF p.b < b THEN p.b ELSE b
         IN (IF hi <= lo THEN <<>>
             ELSE IF hi - lo = p.b - p.a THEN <<p.tok>>
             ELSE <<Pad(hi - lo)>>) \o Slice(Tail(ps), a, b)

\* re.split(r'[.?!]', text[start:end])[k], k counted from 0, as the range
\* of characters it covers.
SentenceRange(cuts, start, end, k) ==
    [a |-> IF k = 0 THEN start ELSE cuts[k] + 1,
     b |-> IF k < Len(cuts) THEN cuts[k + 1] ELSE end]

SentenceKeywords == {"occupancy", "leased", "portfolio"}

BadTerms ==
    {"definition", "means", "defined as", "earlier of", "achieving", "stabilization",
     "threshold", "minimum", "target", "expense", "rent", "cash basis"}

\* Lines 211-219: the sentence chosen for the match m of the text T,
\* without its closing '.'.
SentenceOf(T, m) ==
    LET start == IF Off(T, m.s) - WindowRadius > 0 THEN Off(T, m.s) - WindowRadius ELSE 0
        end == IF EndOff(T, m.e) + WindowRadius < TextLen(T)
               THEN EndOff(T, m.e) + WindowRadius ELSE TextLen(T)
        cuts == Ascending({ o \in DotOffsets(T) : start <= o /\ o < end })
        ps == Pieces(T, 1)
        sent(k) == LET r == SentenceRange(cuts, start, end, k) IN Slice(ps, r.a, r.b)
        long(k) == LET r == SentenceRange(cuts, start, end, k) IN r.b - r.a > MinSentenceLen
        tried == { k \in 0..(SentencesTried - 1) :
                     k <= Len(cuts) /\ long(k) /\ HasAny(sent(k), SentenceKeywords) }
    IN IF tried = {} THEN sent(0) ELSE sent(Min(tried))

\* Lines 228-234.
Score(sentence) ==
    (IF HasKw(sentence, "same store") THEN 10 ELSE 0)
    + (IF HasKw(sentence, "portfolio") THEN 5 ELSE 0)
    + (IF HasKw(sentence, "as of") \/ HasKw(sentence, "ended") THEN 8 ELSE 0)
    + (IF HasKw(sentence, "leased") \/ HasKw(sentence, "occupancy") THEN 5 ELSE 0)
    + (IF HasKw(sentence, "decreased") \/ HasKw(sentence, "increased") THEN 3 ELSE 0)
    + (IF HasKw(sentence, "percent leased") THEN 7 ELSE 0)

\* Lines 203-235 for the matches ms of one pattern.
RECURSIVE Survivors(_, _)
Survivors(T, ms) ==
    IF ms = <<>> THEN <<>>
    ELSE LET m == Head(ms)
             sentence == SentenceOf(T, m)
         IN (IF InRange(m.v) /\ ~HasAny(sentence, BadTerms)
             THEN <<[score |-> Score(sentence), perc_num |-> m.v,
                     sentence |-> sentence \o <<Dot>>]>>
             ELSE <<>>) \o Survivors(T, Tail(ms))

\* Lines 200-235: the candidates, pattern by pattern.
RECURSIVE CandidatesFrom(_, _)
CandidatesFrom(T, n) ==
    IF n > NumPatterns THEN <<>>
    ELSE Survivors(T, finditer(n, T, 1)) \o CandidatesFrom(T, n + 1)

\* KeyGreater on the score alone.
KeyGreaterByScore(x, y) == x.score > y.score

\* x's key is greater than y's: (score, value) compared as tuples.
KeyGreater(x, y) ==
    x.score > y.score \/ (x.score = y.score /\ x.perc_num > y.perc_num)

\* max(candidates, key=lambda x: (x[0], x[1])): the first greatest.
RECURSIVE MaxBy(_, _)
MaxBy(cs, acc) ==
    IF cs = <<>> THEN acc
    ELSE MaxBy(Tail(cs), IF KeyGreater(Head(cs), acc) THEN Head(cs) ELSE acc)

best(cs) == MaxBy(Tail(cs), Head(cs))

\* ------------------------------------------------ 'percent leased' shortcut
\* The first index >= i of a number followed by '%' or by 'percent'.
RECURSIVE NextPercentage(_, _)
NextPercentage(T, i) ==
    IF i > Len(T) THEN 0
    ELSE IF T[i].k = "pct" \/ (T[i].k = "num" /\ IsWord(T, i + 1, {"percent", "percentage"}))
    THEN i ELSE NextPercentage(T, i + 1)

\* re.findall(r'(?:percent|percentage)\s+leased.*?(\d+\.?\d*)\s*(%|percent)', text):
\* the numbers matched, left to right.
RECURSIVE table_matches(_, _)
table_matches(T, i) ==
    IF i > Len(T) THEN <<>>
    ELSE IF IsWord(T, i, {"percent", "percentage"}) /\ IsWord(T, i + 1, {"leased"})
    THEN LET j == NextPercentage(T, i + 2)
         IN IF j = 0 THEN <<>>
            ELSE <<Value(T[j])>>
                 \o table_matches(T, IF T[j].k = "pct" THEN j + 1 ELSE j + 2)
    ELSE table_matches(T, i + 1)

\* Lines 174-184: the first match within 90..100.
RECURSIVE Shortcut(_)
Shortcut(tms) ==
    IF tms = <<>> THEN NotFound
    ELSE IF ShortcutMin <= Head(tms) /\ Head(tms) <= RateMax
    THEN [found |-> TRUE, value |-> Head(tms),
          context |-> <<W("Percent leased:"), Pct(Round(Head(tms), 1) \div Unit,
                        (Round(Head(tms), 1) % Unit) \div 100, 1),
                        W("(from portfolio summary)")>>]
    ELSE Shortcut(Tail(tms))

\* Lines 167-170: the text the pattern stage reads.
PatternText(doc) == Repair(get_text(doc))

\* ------------------------------------------------------------ documents
Words(ss) == [i \in 1..Len(ss) |-> W(ss[i])]

\* Documents the filing server may return.
PlainDoc == << P(Words(<<"Our", "buildings", "are", "fine">>) \o <<Dot>>) >>

EmptyDoc == << >>

\* "Same store portfolio was 94.2% leased as of December 31"
SameStoreDoc ==
    << P(Words(<<"Same store", "portfolio", "was">>) \o <<Pct(94, 2, 1)>>
         \o Words(<<"leased", "as of", "December">>) \o <<Num(31, 0, 0)>>) >>

\* The same sentence with the number split by markup: 94 . 2%
SplitSameStoreDoc ==
    << P(Words(<<"Same store", "portfolio", "was">>) \o <<Num(94, 0, 0), Dot, Pct(2, 0, 0)>>
         \o Words(<<"leased", "as of", "December">>) \o <<Num(31, 0, 0)>>) >>

ThresholdDoc ==
    << P(Words(<<"The", "stabilization", "threshold", "is">>) \o <<Pct(90, 0, 0)>>
         \o Words(<<"occupied">>)) >>

AfterSentenceThresholdDoc == PlainDoc \o ThresholdDoc

CurrentDoc == << P(Words(<<"current">>) \o <<Pct(91, 0, 0)>> \o Words(<<"occupied">>)) >>

TieDoc ==
    << P(<<Pct(88, 0, 0)>> \o Words(<<"occupied", "and">>) \o <<Pct(91, 0, 0)>>
         \o Words(<<"occupied">>)) >>

TieReversedDoc ==
    << P(<<Pct(91, 0, 0)>> \o Words(<<"occupied", "and">>) \o <<Pct(88, 0, 0)>>
         \o Words(<<"occupied">>)) >>

\* Two matches more than 1000 characters apart, each with its own sentence.
ScoredDoc ==
    << P(<<Pct(91, 0, 0)>> \o Words(<<"occupied">>) \o <<Pad(1100), Dot>>),
       P(Words(<<"Same store", "portfolio", "as of", "December">>) \o <<Num(31, 0, 0)>>
         \o Words(<<"was">>) \o <<Pct(88, 0, 0)>>
         \o Words(<<"occupied", "by", "our", "tenants">>)) >>

ShortcutDoc == << P(Words(<<"percent", "leased">>) \o <<Num(95, 0, 0)>> \o Words(<<"percent">>)) >>

ShortcutAndPatternDoc ==
    << P(Words(<<"percent", "leased">>) \o <<Num(95, 0, 0)>> \o Words(<<"percent">>)
         \o <<Pad(400), Pct(97, 0, 0)>> \o Words(<<"occupied">>)) >>

LowShortcutDoc ==
    << P(Words(<<"percentage", "leased">>) \o <<Num(85, 0, 0)>> \o Words(<<"percent">>)
         \o <<Pad(400), Pct(97, 0, 0)>> \o Words(<<"occupied">>)) >>

OurPortfolioDoc ==
    << P(<<Pct(99, 999, 3)>> \o Words(<<"of", "our", "portfolio">>)) >>

DecreasedDoc ==
    << P(Words(<<"occupied", "space", "decreased">>) \o <<Pct(2, 0, 0)>> \o Words(<<"to">>)
         \o <<Pct(89, 5, 1)>>) >>

DateThenPctDoc ==
    << P(Words(<<"December">>) \o <<Num(31, 0, 0), Dot, Pct(95, 0, 0)>>
         \o Words(<<"occupied">>)) >>

OccupancyDoc == << P(Words(<<"Occupancy", "was">>) \o <<Pct(93, 0, 0)>>) >>

LowOccupancyDoc == << P(Words(<<"leased">>) \o <<Pct(40, 0, 0)>>) >>

NearDoc == << P(Words(<<"leased">>) \o <<Pad(290), Pct(93, 0, 0)>>) >>

FarDoc == << P(Words(<<"leased">>) \o <<Pad(300), Pct(93, 0, 0)>>) >>

\* The nearest number to the keyword is out of range, a farther one is not.
NearestLowDoc ==
    << P(<<Pct(97, 0, 0), Pad(100)>> \o Words(<<"occupancy">>) \o <<Pct(12, 0, 0)>>) >>

\* Two in-range numbers at the same distance from the keyword.
TiedDistanceDoc ==
    << P(<<Pct(95, 0, 0)>> \o Words(<<"xx", "leased">>) \o <<Pct(96, 0, 0)>>) >>

OccupiedRow(cs) == Tr(<<Words(<<"occupied">>)>> \o cs)

TwoValueTableDoc == << OccupiedRow(<< <<Pct(95, 0, 0)>>, <<Pct(96, 0, 0)>> >>) >>

OutlierTableDoc ==
    << OccupiedRow(<< <<Pct(95, 0, 0)>>, <<Pct(96, 0, 0)>>, <<Pct(60, 0, 0)>> >>) >>

ReversedTableDoc ==
    << OccupiedRow(<< <<Pct(60, 0, 0)>>, <<Pct(96, 0, 0)>>, <<Pct(95, 0, 0)>> >>) >>

\* Three table values of which only the middle one is within 5 of the middle.
SpreadTableDoc ==
    << OccupiedRow(<< <<Pct(100, 0, 0)>>, <<Pct(50, 0, 0)>>, <<Pct(75, 0, 0)>> >>) >>

RevenueTableDoc == << Tr(<< Words(<<"revenue">>), <<Pct(75, 0, 0)>> >>) >>

TableAndProseDoc ==
    << Tr(<< Words(<<"same-store">>), <<Pct(95, 0, 0)>>, <<Num(120, 0, 0)>> >>),
       P(<<Pct(96, 0, 0)>> \o Words(<<"leased">>)) >>

OccupancyFact(ctx, n) == Ix(ctx, <<>>, Words(<<"Occupancy">>) \o <<n>>, n)

FactDoc == << OccupancyFact("CurrentYearInstant", Num(92, 5, 1)) >>

\* A structured 92.5 and, in prose, 60% near 'target'.
FactAndTargetDoc ==
    << OccupancyFact("CurrentYearInstant", Num(92, 5, 1)),
       P(Words(<<"The", "target", "is">>) \o <<Pct(60, 0, 0)>> \o Words(<<"occupied">>)) >>

AsOfFactDoc == << OccupancyFact("AsOf2024Q4", Num(99, 999, 3)), OccupancyDoc[1] >>

PriorFactDoc == << OccupancyFact("PriorYearInstant", Num(91, 0, 0)) >>

PriorThenCurrentDoc ==
    << OccupancyFact("PriorYearInstant", Num(88, 0, 0)),
       OccupancyFact("CurrentYearInstant", Num(93, 0, 0)) >>

TwoFactsDoc ==
    << OccupancyFact("CurrentYearInstant", Num(93, 0, 0)),
       OccupancyFact("AsOf2024Q4", Num(88, 0, 0)) >>

RevenueFactDoc ==
    << Ix("CurrentYearInstant", Words(<<"Total">>), Words(<<"revenue">>) \o <<Num(75, 0, 0)>>,
          Num(75, 0, 0)) >>

GrandparentLabelDoc ==
    << Ix("CurrentYearInstant", Words(<<"Portfolio">>), <<Num(97, 0, 0)>>, Num(97, 0, 0)) >>

ImpureFactDoc == << Ix("CurrentYearInstant", <<>>, Words(<<"Occupancy", "n/a">>), W("n/a")) >>

LowFactDoc == << OccupancyFact("CurrentYearInstant", Num(40, 0, 0)) >>

PriorFactThenProseDoc == PriorFactDoc \o OccupancyDoc

DocPool ==
    { PlainDoc, EmptyDoc, SameStoreDoc, SplitSameStoreDoc, ThresholdDoc,
      AfterSentenceThresholdDoc, CurrentDoc, TieDoc, TieReversedDoc, ScoredDoc,
      ShortcutDoc, ShortcutAndPatternDoc, LowShortcutDoc, OurPortfolioDoc, DecreasedDoc,
      DateThenPctDoc, OccupancyDoc, LowOccupancyDoc, NearDoc, FarDoc, NearestLowDoc,
      TiedDistanceDoc,
      TwoValueTableDoc, OutlierTableDoc, ReversedTableDoc, SpreadTableDoc, RevenueTableDoc,
      TableAndProseDoc, FactDoc, FactAndTargetDoc, AsOfFactDoc, PriorFactDoc,
      PriorThenCurrentDoc, TwoFactsDoc, RevenueFactDoc, GrandparentLabelDoc,
      ImpureFactDoc, LowFactDoc, PriorFactThenProseDoc }

\* ---------------------------------------------------------- the program
Forms == {"10-Q", "10-K", "8-K"}

\* filings['filings']['recent']['form'] as the catalog may return it.
Catalogs == UNION { [1..n -> Forms] : n \in 0..MaxCatalog }

\* Lines 54-61: the first three 10-Q / 10-K entries; url i stands for the
\* URL built from accs[i] and docs[i].
RECURSIVE FilingUrls(_, _, _)
FilingUrls(forms, i, acc) ==
    IF i > Len(forms) THEN acc
    ELSE IF forms[i] \in {"10-Q", "10-K"}
    THEN LET added == Append(acc, [form |-> forms[i], url |-> i])
         IN IF Len(added) >= MaxFilings THEN added ELSE FilingUrls(forms, i + 1, added)
    ELSE FilingUrls(forms, i + 1, acc)

NoResult ==
    [kind |-> "none", occupancy_rate |-> 0, source |-> "", form |-> "", context |-> <<>>,
     filing_url |-> 0, error |-> ""]

Failure(reason) == [NoResult EXCEPT !.kind = "error", !.error = reason]

\* An exception that leaves get_occupancy_rate.
Raised == [NoResult EXCEPT !.kind = "raised"]

TickerNotFound == "Ticker not found"
SecBlocked == "SEC blocked request"
FailedToFetchFilings == "Failed to fetch filings"
NoRecentFilings == "No recent filings found"
\* NoReliableRate with the wording of the unknown ticker.
NoReliableRateAsNotFound == "Ticker not found"
NoReliableRate == "No reliable rate found across recent filings"

\* Success that names the first filing of the set.
SuccessOfFirstFiling(rate, label, f, ctx) ==
    [kind |-> "success", occupancy_rate |-> rate, source |-> label,
     form |-> filing_urls[1].form, context |-> ctx, filing_url |-> filing_urls[1].url,
     error |-> ""]

\* The record returned at lines 90-96, 155-161, 178-184, 240-246.
Success(rate, label, f, ctx) ==
    [kind |-> "success", occupancy_rate |-> rate, source |-> label, form |-> f.form,
     context |-> ctx, filing_url |-> f.url, error |-> ""]

\* The answer of the catalog request of line 46: none yet, no answer (the
\* request or its decoding failed), an answer without the fields read at
\* lines 50-52, or an answer listing the recent forms.
NoFilings == [answer |-> "unset", form |-> <<>>]

Unreachable == [answer |-> "unreachable", form |-> <<>>]

Malformed == [answer |-> "malformed", form |-> <<>>]

Listed(forms) == [answer |-> "listed", form |-> forms]

Init ==
    /\ pc = "resolve"
    /\ cik = "unset"
    /\ filings = NoFilings
    /\ filing_urls = <<>>
    /\ idx = 0
    /\ html = <<>>
    /\ result = NoResult
    /\ requested = {}
    /\ fetched = <<>>
    /\ ran = <<>>
    /\ outcomes = <<>>
    /\ supplied = <<>>
    /\ reduced = NotFound

\* ResolveReturn that goes on to the catalog whatever the answer.
ResolveReturnAlways(found) == "catalog"

\* Lines 40-41: 'if not cik: return ...'.
ResolveReturn(found) == IF found THEN "catalog" ELSE "done"

\* Lines 37-43: the ticker table is requested; the ticker is in it, is not
\* in it, or the request fails.

Resolve ==
    /\ pc = "resolve"
    /\ requested' = requested \cup {"company_tickers"}
    /\ \E answer \in {"found", "not found", "failed"} :
          /\ cik' = IF answer = "found" THEN "found" ELSE cik
          /\ pc' = ResolveReturn(answer = "found")
          /\ result' = CASE answer = "found" -> result
                         [] answer = "not found" -> Failure(TickerNotFound)
                         [] OTHER -> Failure(SecBlocked)
    /\ UNCHANGED <<filings, filing_urls, idx, html, fetched, ran, outcomes, supplied, reduced>>

\* Lines 45-64: the catalog is requested; the request fails, the answer
\* lacks the expected fields, or it lists the recent forms.
Catalog ==
    /\ pc = "catalog"
    /\ requested' = requested \cup {"submissions"}
    /\ \/ /\ filings' = Unreachable
          /\ result' = Failure(FailedToFetchFilings)
          /\ pc' = "done"
          /\ UNCHANGED <<filing_urls, idx>>
       \/ /\ filings' = Malformed
          /\ result' = Raised
          /\ pc' = "done"
          /\ UNCHANGED <<filing_urls, idx>>
       \/ \E forms \in Catalogs :
             /\ filings' = Listed(forms)
             /\ filing_urls' = FilingUrls(forms, 1, <<>>)
             /\ IF filing_urls' = <<>>
                THEN /\ result' = Failure(NoRecentFilings)
                     /\ pc' = "done"
                     /\ idx' = idx
                ELSE /\ result' = result
                     /\ pc' = "fetch"
                     /\ idx' = 1
    /\ UNCHANGED <<cik, html, fetched, ran, outcomes, supplied, reduced>>

\* NextDocument that passes over a filing.
NextDocumentSkipping(i) == i + 2

\* The position the loop of line 66 takes after a failed fetch (continue)
\* or a document without a result.
NextDocument(i) == i + 1

\* Lines 66-72: the next filing is requested; the request fails and the
\* loop continues, or it returns the document.
Fetch ==
    /\ pc = "fetch"
    /\ idx <= Len(filing_urls)
    /\ fetched' = Append(fetched, filing_urls[idx].url)
    /\ \/ /\ idx' = NextDocument(idx)
          /\ outcomes' = Append(outcomes, "fetch failed")
          /\ UNCHANGED <<pc, html, ran>>
       \/ \E doc \in DocPool :
             /\ html' = doc
             /\ pc' = "structured"
             /\ ran' = <<>>
             /\ outcomes' = Append(outcomes, "fetched")
             /\ idx' = idx
    /\ UNCHANGED <<cik, filings, filing_urls, result, requested, supplied, reduced>>

\* Line 248: the loop has run out of filings.
Exhausted ==
    /\ pc = "fetch"
    /\ idx > Len(filing_urls)
    /\ result' = Failure(NoReliableRate)
    /\ pc' = "done"
    /\ UNCHANGED <<cik, filings, filing_urls, idx, html, requested, fetched, ran, outcomes,
                   supplied, reduced>>

\* Lines 77-96.
TryStructured ==
    /\ pc = "structured"
    /\ ran' = Append(ran, "structured")
    /\ LET hit == XbrlScan(html)
       IN IF hit.found
          THEN /\ result' = Success(Round(hit.value, 2), "XBRL", filing_urls[idx], hit.context)
               /\ pc' = "done"
          ELSE /\ pc' = "consensus"
               /\ result' = result
    /\ UNCHANGED <<cik, filings, filing_urls, idx, html, requested, fetched, outcomes,
                   supplied, reduced>>

\* Lines 135-161.
TryConsensus ==
    /\ pc = "consensus"
    /\ ran' = Append(ran, "consensus")
    /\ LET hit == Consensus(candidates_new_logic(html))
       IN IF hit.found
          THEN /\ result' = Success(Round(hit.value, 2), "ADVANCED", filing_urls[idx],
                                    hit.context)
               /\ pc' = "done"
          ELSE /\ pc' = "pattern"
               /\ result' = result
    /\ UNCHANGED <<cik, filings, filing_urls, idx, html, requested, fetched, outcomes,
                   supplied, reduced>>

\* Lines 167-246: the 'percent leased' shortcut, then the pattern library;
\* without a candidate the loop goes on to the next filing.
TryPattern ==
    /\ pc = "pattern"
    /\ ran' = Append(ran, "pattern")
    /\ LET text == PatternText(html)
           short == Shortcut(table_matches(text, 1))
           candidates == CandidatesFrom(text, 1)
       IN IF short.found
          THEN /\ result' = Success(Round(short.value, 1), "TABLE", filing_urls[idx],
                                    short.context)
               /\ pc' = "done"
               /\ idx' = idx
          ELSE IF candidates # <<>>
          THEN /\ result' = Success(Round(best(candidates).perc_num, 2), "TEXT",
                                    filing_urls[idx], best(candidates).sentence)
               /\ pc' = "done"
               /\ idx' = idx
          ELSE /\ pc' = "fetch"
               /\ idx' = NextDocument(idx)
               /\ result' = result
    /\ UNCHANGED <<cik, filings, filing_urls, html, requested, fetched, outcomes,
                   supplied, reduced>>

Next ==
    \/ Resolve
    \/ Catalog
    \/ Fetch
    \/ Exhausted
    \/ TryStructured
    \/ TryConsensus
    \/ TryPattern

Spec == Init /\ [][Next]_vars

\* ------------------------------------------------- the reducer on its own
\* Lines 149-161 run on a list of candidates, then once more on the same
\* candidates supplied in another order (the same order included).

\* Candidate values: the ends of the range, two values 5 and 6 away from the
\* lower end, and two neighbours.
CandidateValues == {50 * Unit, 55 * Unit, 56 * Unit, 95 * Unit, 96 * Unit, 100 * Unit}

CandidateLists == UNION { [1..n -> CandidateValues] : n \in 0..MaxCandidates }

\* The list s in the order given by the permutation f of its positions.
Reordered(s, f) == [i \in 1..Len(s) |-> s[f[i]]]

InitReducer ==
    /\ pc = "reduce"
    /\ cik = "unset"
    /\ filings = NoFilings
    /\ filing_urls = <<>>
    /\ idx = 0
    /\ html = <<>>
    /\ result = NoResult
    /\ requested = {}
    /\ fetched = <<>>
    /\ ran = <<>>
    /\ outcomes = <<>>
    /\ supplied \in CandidateLists
    /\ reduced = NotFound

Reduce ==
    /\ pc = "reduce"
    /\ reduced' = Consensus(supplied)
    /\ pc' = "reduced"
    /\ UNCHANGED <<cik, filings, filing_urls, idx, html, result, requested, fetched, ran,
                   outcomes, supplied>>

ReduceReordered ==
    /\ pc = "reduced"
    /\ \E f \in Permutations(1..Len(supplied)) :
          /\ supplied' = Reordered(supplied, f)
          /\ reduced' = Consensus(supplied')
    /\ pc' = "reduced twice"
    /\ UNCHANGED <<cik, filings, filing_urls, idx, html, result, requested, fetched, ran,
                   outcomes>>

NextReducer ==
    \/ Reduce
    \/ ReduceReordered

SpecReducer == InitReducer /\ [][NextReducer]_vars

\* =============================================================== claims
\* What a document holds, stated without the scanners' loops.

\* The facts of a document that qualify as structured values.
Qualifying(doc) ==
    { i \in 1..Len(doc) :
        /\ doc[i].k = "ix"
        /\ doc[i].ctx \in {"CurrentYearInstant", "AsOf2024Q4"}
        /\ \E kw \in XbrlKeywords : HasKw(doc[i].cells[1] \o doc[i].cells[2], kw)
        /\ doc[i].num.k = "num"
        /\ 50 * Unit <= Value(doc[i].num) /\ Value(doc[i].num) <= 100 * Unit }

\* Some keyword row of a table has a cell whose first percentage is in range.
TableCandidate(doc) ==
    \E i \in 1..Len(doc) :
       /\ doc[i].k = "tr"
       /\ \E kw \in TableKeywords : HasKw(Concat(doc[i].cells), kw)
       /\ \E c \in 1..Len(doc[i].cells) :
             LET cell == doc[i].cells[c]
                 ps == { j \in 1..Len(cell) : cell[j].k = "pct" }
             IN ps # {} /\ 50 * Unit <= Value(cell[Min(ps)])
                        /\ Value(cell[Min(ps)]) <= 100 * Unit

\* Some in-range percentage stands less than 300 characters from a keyword.
ProximityCandidate(doc) ==
    LET T == get_text(doc)
    IN \E i, j \in 1..Len(T) :
          /\ T[i].k = "w" /\ \E kw \in ProximityKeywords : Contains(Lower(T[i].w), kw)
          /\ T[j].k = "pct"
          /\ 50 * Unit <= Value(T[j]) /\ Value(T[j]) <= 100 * Unit
          /\ Abs(Off(T, i) - Off(T, j)) < 300

\* The 'percent leased' shortcut has a match within 90..100.
ShortcutFires(doc) ==
    LET tms == table_matches(PatternText(doc), 1)
    IN \E k \in 1..Len(tms) : 90 * Unit <= tms[k] /\ tms[k] <= 100 * Unit

\* The pattern candidates that survive the range and disqualifying-term filters.
Surviving(doc) == CandidatesFrom(PatternText(doc), 1)

Yields(doc) ==
    \/ Qualifying(doc) # {}
    \/ TableCandidate(doc) \/ ProximityCandidate(doc)
    \/ ShortcutFires(doc) \/ Surviving(doc) # <<>>

AllStages == <<"structured", "consensus", "pattern">>

\* C1: whenever a Success record is returned, by whichever strategy, its
\* occupancy_rate lies in [50, 100].
C1_RateInRange ==
    result.kind = "success" =>
        50 * Unit <= result.occupancy_rate /\ result.occupancy_rate <= 100 * Unit

\* A Success whose value was rounded up to the upper end of the range.
C1_Witness ==
    /\ result.kind = "success"
    /\ result.occupancy_rate = 100 * Unit
    /\ result.source \in {"XBRL", "TEXT"}

\* C2: a document holding a qualifying structured fact results in the value
\* of its first such fact, whatever the table, proximity and pattern
\* scanners find in it: no later stage is entered for it.
C2_StructuredFirst ==
    Qualifying(html) # {} =>
        \/ pc = "structured"
        \/ /\ pc = "done"
           /\ result.kind = "success"
           /\ result.source = "XBRL"
           /\ result.occupancy_rate = Round(Value(html[Min(Qualifying(html))].num), 2)

\* A structured result from a document in which the other scanners find
\* another value.
C2_Witness ==
    /\ pc = "done"
    /\ result.source = "XBRL"
    /\ ProximityCandidate(html)
    /\ Surviving(html) # <<>>
    /\ \A k \in 1..Len(Surviving(html)) :
          Round(Surviving(html)[k].perc_num, 2) # result.occupancy_rate

\* C3: within a document the stages run in the order structured,
\* consensus, pattern; a stage runs only if every stage before it found
\* nothing, and the first stage that finds something ends the document.
C3_StrictOrder ==
    /\ \E n \in 0..3 : ran = SubSeq(AllStages, 1, n)
    /\ pc = "consensus" => Qualifying(html) = {}
    /\ pc = "pattern" =>
          Qualifying(html) = {} /\ ~TableCandidate(html) /\ ~ProximityCandidate(html)
    /\ result.source = "XBRL" => ran = <<"structured">>
    /\ result.source = "ADVANCED" =>
          ran = <<"structured", "consensus">> /\ Qualifying(html) = {}
    /\ result.source \in {"TABLE", "TEXT"} =>
          /\ ran = AllStages
          /\ Qualifying(html) = {} /\ ~TableCandidate(html) /\ ~ProximityCandidate(html)

\* A pattern-stage result.
C3_Witness == pc = "done" /\ result.source = "TEXT" /\ ran = AllStages

\* C4: the filings are requested in the given order, one at a time; a
\* failed fetch and a document without a candidate both lead to the next
\* filing; the Success comes from the filing fetched last, which yields a
\* candidate, and nothing is requested after it.
C4_DocumentOrder ==
    /\ Len(fetched) <= Len(filing_urls)
    /\ \A j \in 1..Len(fetched) : fetched[j] = filing_urls[j].url
    /\ Len(outcomes) = Len(fetched)
    /\ pc = "fetch" =>
          /\ Len(fetched) = idx - 1
          /\ (idx > 1 /\ outcomes[idx - 1] = "fetched") => ~Yields(html)
    /\ pc \in {"structured", "consensus", "pattern"} =>
          Len(fetched) = idx /\ outcomes[idx] = "fetched"
    /\ result.kind = "success" =>
          /\ Len(fetched) = idx /\ outcomes[idx] = "fetched"
          /\ Yields(html)
          /\ result.filing_url = filing_urls[idx].url
    /\ (pc = "done" /\ result.error = "No reliable rate found across recent filings") =>
          /\ Len(fetched) = Len(filing_urls)
          /\ outcomes[Len(outcomes)] = "fetched" => ~Yields(html)

\* A Success from the third filing, after a failed fetch and a document
\* that yields nothing.
C4_Witness ==
    /\ result.kind = "success"
    /\ outcomes = <<"fetch failed", "fetched", "fetched">>
    /\ result.filing_url = filing_urls[3].url

\* C5: when every fetch of a non-empty filing set fails, no Success is
\* returned: the extraction ends with the reason 'No reliable rate found
\* across recent filings', which is not the reason of an unknown ticker.
C5_AllFetchesFail ==
    (filing_urls # <<>> /\ \A j \in 1..Len(outcomes) : outcomes[j] = "fetch failed") =>
        /\ result.kind # "success"
        /\ pc = "done" =>
              /\ Len(outcomes) = Len(filing_urls)
              /\ result.kind = "error"
              /\ result.error = "No reliable rate found across recent filings"
              /\ result.error # TickerNotFound

\* Three filings, every fetch failed, extraction over.
C5_Witness ==
    /\ pc = "done"
    /\ outcomes = <<"fetch failed", "fetch failed", "fetch failed">>
    /\ result.kind = "error"

\* The median: the middle value, or the mean of the two middle values.
TrueMedian(c) ==
    LET srt == sorted(c)
        n == Len(c)
    IN IF n % 2 = 1 THEN srt[(n + 1) \div 2] ELSE (srt[n \div 2] + srt[(n \div 2) + 1]) \div 2

RECURSIVE Within(_, _, _)
Within(c, centre, tol) ==
    IF c = <<>> THEN <<>>
    ELSE (IF Abs(Head(c) - centre) <= tol THEN <<Head(c)>> ELSE <<>>)
         \o Within(Tail(c), centre, tol)

\* C6: the consensus value is the median of the candidates that lie within
\* 5 of the median of all candidates ({95, 96} gives 95.5).
C6_ReducerReturnsMedian ==
    result.source = "ADVANCED" =>
        LET c == candidates_new_logic(html)
            kept == Within(c, TrueMedian(c), 5 * Unit)
        IN kept # <<>> /\ result.occupancy_rate = Round(TrueMedian(kept), 2)

\* The sentence a token stands in: the tokens between the lone '.' before
\* it and the lone '.' after it.
OwnSentence(T, j) ==
    LET before == { i \in 1..(j - 1) : T[i].k = "dot" }
        after == { i \in (j + 1)..Len(T) : T[i].k = "dot" }
        from == IF before = {} THEN 1 ELSE Max(before) + 1
        to == IF after = {} THEN Len(T) ELSE Min(after) - 1
    IN SubSeq(T, from, to)

\* C7: the value of a pattern result is never a percentage that stands
\* only in sentences holding a disqualifying term.
C7_NoDisqualifiedSentence ==
    result.source = "TEXT" =>
        LET T == PatternText(html)
        IN \E j \in 1..Len(T) :
              /\ T[j].k = "pct"
              /\ Round(Value(T[j]), 2) = result.occupancy_rate
              /\ ~ \E bad \in BadTerms : HasKw(OwnSentence(T, j), bad)

\* c has the greatest (score, value) of the candidates cs.
Greatest(c, cs) ==
    \A k \in 1..Len(cs) :
       \/ cs[k].score < c.score
       \/ cs[k].score = c.score /\ cs[k].perc_num <= c.perc_num

\* C8 as stated: whenever the pattern stage of a document has a surviving
\* candidate, the document's value is that of the candidate with the
\* greatest (score, value).
C8_Original ==
    (pc = "done" /\ result.kind = "success" /\ ran = AllStages /\ Surviving(html) # <<>>) =>
        \E k \in 1..Len(Surviving(html)) :
           /\ Greatest(Surviving(html)[k], Surviving(html))
           /\ result.occupancy_rate = Round(Surviving(html)[k].perc_num, 2)

\* C8 as amended: the same, provided the 'percent leased' shortcut, which
\* is tried first, has no match within 90..100; if it has one, the value is
\* that of its first such match.
C8_GreatestUnlessShortcut ==
    (pc = "done" /\ ran = AllStages /\ Surviving(html) # <<>>) =>
        /\ result.kind = "success"
        /\ ~ShortcutFires(html) =>
              /\ result.source = "TEXT"
              /\ \E k \in 1..Len(Surviving(html)) :
                    /\ Greatest(Surviving(html)[k], Surviving(html))
                    /\ result.occupancy_rate = Round(Surviving(html)[k].perc_num, 2)
        /\ ShortcutFires(html) => result.source = "TABLE"

\* Two surviving candidates of equal score, 88 and 91: the result is 91.
C8_Witness ==
    /\ pc = "done" /\ result.source = "TEXT"
    /\ Len(Surviving(html)) = 2
    /\ Surviving(html)[1].score = Surviving(html)[2].score
    /\ Surviving(html)[1].perc_num = 88 * Unit
    /\ Surviving(html)[2].perc_num = 91 * Unit
    /\ result.occupancy_rate = 91 * Unit

\* ph stands in T, word for word.
ContainsPhrase(T, ph) ==
    \E i \in 1..(Len(T) - Len(ph) + 1) :
       \A k \in 1..Len(ph) :
          IF ph[k].k = "w" THEN T[i + k - 1].k = "w" /\ Lower(T[i + k - 1].w) = Lower(ph[k].w)
          ELSE T[i + k - 1] = ph[k]

SameStorePhrase ==
    Words(<<"Same store", "portfolio", "was">>) \o <<Pct(94, 2, 1)>> \o Words(<<"leased">>)

\* C9: a first document without a qualifying structured fact and without a
\* table or proximity candidate, whose text holds 'Same store portfolio was
\* 94.2% leased as of December 31', gives Success with the value 94.2, the
\* pattern label, and a context sentence holding 'Same store portfolio was
\* 94.2% leased'.
C9_SameStoreScenario ==
    ( /\ pc = "done" /\ Len(fetched) = 1 /\ outcomes = <<"fetched">>
      /\ Qualifying(html) = {} /\ ~TableCandidate(html) /\ ~ProximityCandidate(html)
      /\ ContainsPhrase(PatternText(html), SameStorePhrase \o Words(<<"as of", "December">>)
                                           \o <<Num(31, 0, 0)>>) ) =>
        /\ result.kind = "success"
        /\ result.occupancy_rate = 94200
        /\ result.source = "TEXT"
        /\ ContainsPhrase(result.context, SameStorePhrase)

\* C10: when the ticker is not in the ticker table, a Failure is returned
\* at once: the catalog is never requested and no document is fetched or
\* evaluated.
C10_TickerNotFound ==
    /\ (pc # "resolve" /\ cik = "unset") =>
          pc = "done" /\ result.kind = "error"
    /\ (result.kind = "error" /\ result.error = "Ticker not found") =>
          /\ pc = "done"
          /\ requested = {"company_tickers"}
          /\ filing_urls = <<>> /\ fetched = <<>> /\ ran = <<>> /\ html = <<>>

\* The extraction ended on an unknown ticker.
C10_Witness == pc = "done" /\ result.error = "Ticker not found" /\ cik = "unset"

\* C11: when the catalog request gets no answer, or an answer that is
\* malformed (an answer without the filings/recent/form, accessionNumber or
\* primaryDocument fields included), the call ends at once with a Failure
\* record, nothing is raised and no document is fetched.
C11_CatalogFailureIsReported ==
    filings.answer \in {"unreachable", "malformed"} =>
        /\ pc = "done"
        /\ result.kind = "error"
        /\ fetched = <<>>

\* C12: the reducer's output depends only on the candidate values: run
\* again on the same candidates, in the same or in any other order of
\* supply, it gives the output of the first run.
C12_OrderIndependent ==
    [][(pc = "reduced" /\ pc' = "reduced twice") => reduced' = reduced]_vars

\* A second run on three candidates supplied out of order, one of them
\* rejected as an outlier.
C12_Witness ==
    /\ pc = "reduced twice"
    /\ Len(supplied) = 3
    /\ supplied # sorted(supplied)
    /\ reduced.found
    /\ Len(Cleaned(supplied, Middle(supplied))) = 2

\* The positions of the catalog that hold an accepted form.
Accepted(forms) == { i \in 1..Len(forms) : forms[i] \in {"10-Q", "10-K"} }

\* C13: an extraction ends with one Success or Failure record, after at
\* most three fetches, each of another filing, all of form 10-Q or 10-K and
\* in the order of the catalog; once the ticker is resolved and the catalog
\* retrieved, the only Failure is the one of having exhausted every filing
\* and every strategy.
C13_OneRecordWithinThreeFetches ==
    /\ Len(fetched) <= 3
    /\ \A i, j \in 1..Len(fetched) : i < j => fetched[i] < fetched[j]
    /\ \A j \in 1..Len(fetched) :
          /\ fetched[j] \in Accepted(filings.form)
          /\ Cardinality({ i \in Accepted(filings.form) : i < fetched[j] }) = j - 1
    /\ pc = "done" => result.kind \in {"success", "error"}
    /\ (pc = "done" /\ cik = "found" /\ filings.answer \in {"listed", "malformed"}
          /\ result.kind # "success") =>
          /\ result = Failure(NoReliableRate)
          /\ Len(fetched) = Cardinality(Accepted(filings.form))
             \/ Len(fetched) = 3
          /\ Len(ran) \in {0, 3}

\* The keyword and percentage positions of a text and their distance in
\* characters.
KeywordAt(T) ==
    { i \in 1..Len(T) :
        T[i].k = "w" /\ \E kw \in ProximityKeywords : Contains(Lower(T[i].w), kw) }

PctAt(T) == { j \in 1..Len(T) : T[j].k = "pct" }

Dist(T, i, j) == Abs(Off(T, i) - Off(T, j))

\* The pairs of a keyword and a percentage closest to it, when that
\* percentage is in range and less than 300 characters away.
ClosestPairs(T) ==
    { p \in KeywordAt(T) \X PctAt(T) :
        /\ \A k \in PctAt(T) : Dist(T, p[1], p[2]) <= Dist(T, p[1], k)
        /\ 50 * Unit <= Value(T[p[2]]) /\ Value(T[p[2]]) <= 100 * Unit
        /\ Dist(T, p[1], p[2]) < 300 }

\* The pairs of a keyword and an in-range percentage less than 300
\* characters away from it.
InRangePairs(T) ==
    { p \in KeywordAt(T) \X PctAt(T) :
        /\ 50 * Unit <= Value(T[p[2]]) /\ Value(T[p[2]]) <= 100 * Unit
        /\ Dist(T, p[1], p[2]) < 300 }

\* The pairs of a set at the least distance.
Nearest(T, pairs) ==
    { p \in pairs : \A q \in pairs : Dist(T, p[1], p[2]) <= Dist(T, q[1], q[2]) }

\* The first pair of a set, by keyword and then by percentage.
FirstPair(pairs) ==
    CHOOSE p \in pairs :
        \A q \in pairs : p[1] < q[1] \/ (p[1] = q[1] /\ p[2] <= q[2])

\* C14 as stated: each keyword is paired with the percentage closest to it,
\* the pair counts only if that percentage is in range and less than 300
\* characters away, and the scanner returns the value of the nearest such
\* pair, or nothing when there is none.
C14_Original ==
    Len(ran) >= 2 =>
        LET T == get_text(html)
            found == closeness_search(T)
        IN IF ClosestPairs(T) = {} THEN found = None
           ELSE \E p \in Nearest(T, ClosestPairs(T)) : found = Value(T[p[2]])

\* C14: the scanner returns the value of the nearest pair of a keyword and
\* an in-range percentage less than 300 characters apart, the first such
\* pair by keyword and then by percentage when several are equally near,
\* and nothing when there is no such pair; out-of-range percentages are
\* passed over, however near a keyword they stand.  Without table values
\* that value is the document's consensus result.
C14_NearestInRange ==
    Len(ran) >= 2 =>
        LET T == get_text(html)
            found == closeness_search(T)
        IN /\ IF InRangePairs(T) = {} THEN found = None
              ELSE found = Value(T[FirstPair(Nearest(T, InRangePairs(T)))[2]])
           /\ (InRangePairs(T) # {} /\ ~TableCandidate(html) /\ Len(ran) = 2) =>
                 /\ pc = "done"
                 /\ result.source = "ADVANCED"
                 /\ result.occupancy_rate =
                       Round(Value(T[FirstPair(Nearest(T, InRangePairs(T)))[2]]), 2)

\* A consensus result taken from a farther in-range percentage although
\* the percentage closest to the keyword is out of range.
C14_Witness ==
    /\ pc = "done"
    /\ result.source = "ADVANCED"
    /\ ~TableCandidate(html)
    /\ LET T == get_text(html)
       IN /\ ClosestPairs(T) = {}
          /\ \E i \in KeywordAt(T) : \E j \in PctAt(T) :
                /\ \A k \in PctAt(T) : Dist(T, i, j) <= Dist(T, i, k)
                /\ Value(T[j]) < 50 * Unit
                /\ Dist(T, i, j) < 300

\* The facts of a document tied to a prior or comparative period.
PriorFacts(doc) ==
    { i \in 1..Len(doc) :
        doc[i].k = "ix" /\ doc[i].ctx \notin {"CurrentYearInstant", "AsOf2024Q4"} }

\* C15: the structured scanner finds a fact exactly when some fact has a
\* current or as-of context, a keyword in its grandparent and parent text,
\* a pure decimal as text and a value in range, and then it finds the
\* first of these in document order, with its label text as context; a
\* structured result is never the fact of a prior period; without a
\* qualifying fact the scanner yields nothing and the consensus stage runs
\* next.
C15_FirstQualifyingFact ==
    Len(ran) >= 1 =>
        LET hit == XbrlScan(html)
            first == Min(Qualifying(html))
        IN /\ ran[1] = "structured"
           /\ hit.found <=> Qualifying(html) # {}
           /\ Qualifying(html) # {} =>
                 /\ hit.value = Value(html[first].num)
                 /\ hit.context = html[first].cells[1] \o html[first].cells[2]
                                     \o html[first].cells[2]
                 /\ pc = "done" /\ ran = <<"structured">>
                 /\ result.kind = "success" /\ result.source = "XBRL"
                 /\ result.context = hit.context
                 /\ first \notin PriorFacts(html)
           /\ Qualifying(html) = {} =>
                 /\ result.source # "XBRL"
                 /\ pc = "consensus" \/ (Len(ran) >= 2 /\ ran[2] = "consensus")

\* A structured result from the current fact of a document whose first
\* fact, with a keyword label and another in-range value, is of a prior
\* period.
C15_Witness ==
    /\ pc = "done"
    /\ result.source = "XBRL"
    /\ \E i \in PriorFacts(html) :
          /\ i < Min(Qualifying(html))
          /\ html[i].num.k = "num"
          /\ 50 * Unit <= Value(html[i].num) /\ Value(html[i].num) <= 100 * Unit
          /\ Round(Value(html[i].num), 2) # result.occupancy_rate

\* The values of a list.
Range(s) == { s[k] : k \in 1..Len(s) }

\* C16: the reducer yields a value exactly when the table and proximity
\* scanners supplied at least one candidate: the middle candidate is always
\* among those retained; the value yielded is one of the candidates
\* supplied, and it is the document's result; so the pattern stage is
\* entered only for a document in which both scanners found nothing.
C16_YieldsIffCandidates ==
    Len(ran) >= 2 =>
        LET c == candidates_new_logic(html)
            hit == Consensus(c)
        IN /\ (TableCandidate(html) \/ ProximityCandidate(html)) <=> c # <<>>
           /\ hit.found <=> c # <<>>
           /\ c # <<>> =>
                 /\ Middle(c) \in Range(Cleaned(c, Middle(c)))
                 /\ hit.value \in Range(c)
                 /\ pc = "done" /\ ran = <<"structured", "consensus">>
                 /\ result.kind = "success" /\ result.source = "ADVANCED"
                 /\ \E k \in 1..Len(c) : result.occupancy_rate = Round(c[k], 2)
           /\ (pc = "pattern" \/ Len(ran) = 3) =>
                 /\ c = <<>>
                 /\ ~TableCandidate(html) /\ ~ProximityCandidate(html)

\* A consensus result from three candidates of which outlier rejection
\* retains the middle one alone.
C16_Witness ==
    /\ pc = "done"
    /\ result.source = "ADVANCED"
    /\ LET c == candidates_new_logic(html)
       IN /\ Len(c) = 3
          /\ Cleaned(c, Middle(c)) = <<Middle(c)>>
          /\ result.occupancy_rate = Round(Middle(c), 2)

\* C17: a Success record names the document its value was found in: its
\* filing_url is the URL requested last, that request returned the document
\* scanned, its form is the form the catalog lists for that filing, whatever
\* the forms of the filings passed over before, and its source names the
\* stage that found the value in that document.
C17_Provenance ==
    result.kind = "success" =>
        LET n == Len(fetched)
        IN /\ n >= 1 /\ outcomes[n] = "fetched"
           /\ result.filing_url = fetched[n]
           /\ result.form = filings.form[fetched[n]]
           /\ result.form \in {"10-Q", "10-K"}
           /\ result.source \in {"XBRL", "ADVANCED", "TABLE", "TEXT"}
           /\ result.source = "XBRL" =>
                 ran = <<"structured">> /\ Qualifying(html) # {}
           /\ result.source = "ADVANCED" =>
                 /\ ran = <<"structured", "consensus">>
                 /\ TableCandidate(html) \/ ProximityCandidate(html)
           /\ result.source = "TABLE" => ran = AllStages /\ ShortcutFires(html)
           /\ result.source = "TEXT" =>
                 ran = AllStages /\ ~ShortcutFires(html) /\ Surviving(html) # <<>>

\* A Success from the third filing, of another form than the first, whose
\* fetch failed, and the second, which yielded nothing.
C17_Witness ==
    /\ result.kind = "success"
    /\ outcomes = <<"fetch failed", "fetched", "fetched">>
    /\ result.filing_url = fetched[3]
    /\ filings.form[fetched[1]] # result.form
    /\ filings.form[fetched[2]] # result.form
    /\ filings.form[1] = "8-K"

====
